---------------------------- MODULE Spec2Model ----------------------------
(***************************************************************************)
(* Model of src/main.py, the "Mini Resume Management" service: the         *)
(* in-memory candidate store, the id counter, the upload directory and     *)
(* the four request handlers, with the helpers they call.                  *)
(*                                                                         *)
(* Strings are sequences of one-character strings, so that the helpers     *)
(* (_safe_filename, _normalize_phone, _parse_skills, os.path.splitext)     *)
(* are computed character by character as the code computes them.  A       *)
(* character outside ASCII is written by its code point ("U+00E9").        *)
(***************************************************************************)
EXTENDS Integers, Sequences, FiniteSets, TLC

(***************************************************************************)
(* Bounds of the model.                                                    *)
(***************************************************************************)
\* creations that reach id allocation (NEXT_ID stays <= MaxAlloc + 1)
MaxAlloc == 3
\* upload_candidate coroutines suspended at `await Resume.read()` at once
MaxInFlight == 2
\* the clock stops at MaxClock ticks (date.today() and datetime.utcnow() read it)
MaxClock == 1
\* clock ticks in one calendar day
TicksPerDay == 1
\* creations that reach id allocation under SpecForms
FormsAlloc == 1
\* the longest filename given to _safe_filename under SpecHelpers
MaxNameLen == 4
\* the longest skills string given to _parse_skills under SpecHelpers
MaxSkillsLen == 5

(***************************************************************************)
(* Characters.                                                             *)
(***************************************************************************)
AsciiDigits == {"0", "1", "2", "3", "4", "5", "6", "7", "8", "9"}

Lowercase == {"a", "b", "c", "d", "e", "f", "g", "h", "i", "j", "k", "l", "m",
              "n", "o", "p", "q", "r", "s", "t", "u", "v", "w", "x", "y", "z"}

Uppercase == {"A", "B", "C", "D", "E", "F", "G", "H", "I", "J", "K", "L", "M",
              "N", "O", "P", "Q", "R", "S", "T", "U", "V", "W", "X", "Y", "Z"}

\* U+0663 ARABIC-INDIC DIGIT THREE: a decimal digit (category Nd) outside ASCII
UnicodeDigits == {"U+0663"}

\* str.lower() on one character
LowerChar(c) ==
    CASE c = "A" -> "a" [] c = "B" -> "b" [] c = "C" -> "c" [] c = "D" -> "d"
      [] c = "E" -> "e" [] c = "F" -> "f" [] c = "G" -> "g" [] c = "H" -> "h"
      [] c = "I" -> "i" [] c = "J" -> "j" [] c = "K" -> "k" [] c = "L" -> "l"
      [] c = "M" -> "m" [] c = "N" -> "n" [] c = "O" -> "o" [] c = "P" -> "p"
      [] c = "Q" -> "q" [] c = "R" -> "r" [] c = "S" -> "s" [] c = "T" -> "t"
      [] c = "U" -> "u" [] c = "V" -> "v" [] c = "W" -> "w" [] c = "X" -> "x"
      [] c = "Y" -> "y" [] c = "Z" -> "z" [] OTHER -> c

\* str.lower()
Lower(s) == [i \in 1..Len(s) |-> LowerChar(s[i])]

\* the characters str.strip() removes when called without an argument
Whitespace == {" ", "\t"}

\* re "\d" on a str pattern: the Unicode decimal digits
DecimalDigits == AsciiDigits \cup UnicodeDigits

\* re "\D"
IsNonDigit(c) == c \notin DecimalDigits

\* re "[a-zA-Z0-9._-]"
SafeChars == Lowercase \cup Uppercase \cup AsciiDigits \cup {".", "_", "-"}

\* re "[^a-zA-Z0-9._-]"
IsUnsafe(c) == c \notin SafeChars

\* s.lstrip(chars)
RECURSIVE StripLeft(_, _)
StripLeft(s, chars) ==
    IF s # <<>> /\ Head(s) \in chars THEN StripLeft(Tail(s), chars) ELSE s

\* s.rstrip(chars)
RECURSIVE StripRight(_, _)
StripRight(s, chars) ==
    IF s # <<>> /\ s[Len(s)] \in chars
    THEN StripRight(SubSeq(s, 1, Len(s) - 1), chars)
    ELSE s

\* s.strip(chars)
Strip(s, chars) == StripRight(StripLeft(s, chars), chars)

DigitChars == <<"0", "1", "2", "3", "4", "5", "6", "7", "8", "9">>

\* str(n) for n >= 0
RECURSIVE DecStr(_)
DecStr(n) ==
    IF n < 10
    THEN <<DigitChars[n + 1]>>
    ELSE DecStr(n \div 10) \o <<DigitChars[(n % 10) + 1]>>

(***************************************************************************)
(* Helpers of main.py.                                                     *)
(***************************************************************************)
UPLOAD_DIR == <<"u", "p", "l", "o", "a", "d", "s">>

ALLOWED_EXTENSIONS == { <<".", "p", "d", "f">>,
                        <<".", "d", "o", "c">>,
                        <<".", "d", "o", "c", "x">> }

\* re.sub(r"\D", "", phone)
normalize_phone(phone) == SelectSeq(phone, LAMBDA c : ~IsNonDigit(c))

\* re.sub(r"[^a-zA-Z0-9._-]+", "_", name): every maximal run of unsafe
\* characters becomes one underscore
RECURSIVE SubUnsafe(_, _)
SubUnsafe(name, inRun) ==
    IF name = <<>> THEN <<>>
    ELSE IF IsUnsafe(Head(name))
         THEN (IF inRun THEN <<>> ELSE <<"_">>) \o SubUnsafe(Tail(name), TRUE)
         ELSE <<Head(name)>> \o SubUnsafe(Tail(name), FALSE)

\* _safe_filename with .strip("_") left out
safe_filename_unstripped(name) ==
    LET replaced == SubUnsafe(name, FALSE)
    IN  IF replaced = <<>> THEN <<"r", "e", "s", "u", "m", "e">> ELSE replaced

safe_filename(name) ==
    LET stripped == Strip(SubUnsafe(name, FALSE), {"_"})
    IN  IF stripped = <<>> THEN <<"r", "e", "s", "u", "m", "e">> ELSE stripped

\* p.rfind(c): the last index of c in p, 0 when there is none (1-based)
RFind(p, c) ==
    LET hits == {i \in 1..Len(p) : p[i] = c}
    IN  IF hits = {} THEN 0 ELSE CHOOSE i \in hits : \A j \in hits : j <= i

\* os.path.splitext(p) (genericpath._splitext with sep "/", extsep "."):
\* the extension starts at the last dot, unless that dot comes before the
\* last separator or only dots lie between the separator and it
SplitExt(p) ==
    LET sepIndex == RFind(p, "/")
        dotIndex == RFind(p, ".")
    IN  IF dotIndex > sepIndex
           /\ \E k \in (sepIndex + 1)..(dotIndex - 1) : p[k] # "."
        THEN <<SubSeq(p, 1, dotIndex - 1), SubSeq(p, dotIndex, Len(p))>>
        ELSE <<p, <<>>>>

\* os.path.join(UPLOAD_DIR, name) for a name that does not start with "/"
JoinUpload(name) == UPLOAD_DIR \o <<"/">> \o name

\* os.path.basename(path)
Basename(path) == SubSeq(path, RFind(path, "/") + 1, Len(path))

\* skills_raw.split(","): the pieces between the commas, empty pieces kept
RECURSIVE SplitComma(_, _)
SplitComma(s, piece) ==
    IF s = <<>> THEN <<piece>>
    ELSE IF Head(s) = ","
         THEN <<piece>> \o SplitComma(Tail(s), <<>>)
         ELSE SplitComma(Tail(s), piece \o <<Head(s)>>)

\* Unique with the key taken as s, not s.lower()
RECURSIVE UniqueCaseSensitive(_, _)
UniqueCaseSensitive(skills, seen) ==
    IF skills = <<>> THEN <<>>
    ELSE LET s == Head(skills)
         IN  IF s \notin seen
             THEN <<s>> \o UniqueCaseSensitive(Tail(skills), seen \cup {s})
             ELSE UniqueCaseSensitive(Tail(skills), seen)

\* the dedup loop of _parse_skills: keep s unless s.lower() was seen
RECURSIVE Unique(_, _)
Unique(skills, seen) ==
    IF skills = <<>> THEN <<>>
    ELSE LET s == Head(skills)
             key == Lower(s)
         IN  IF key \notin seen
             THEN <<s>> \o Unique(Tail(skills), seen \cup {key})
             ELSE Unique(Tail(skills), seen)

parse_skills(skills_raw) ==
    LET pieces == SplitComma(skills_raw, <<>>)
        stripped == [i \in 1..Len(pieces) |-> Strip(pieces[i], Whitespace)]
        nonEmpty == SelectSeq(stripped, LAMBDA s : s # <<>>)
    IN  Unique(nonEmpty, {})


\* suffixed_name with a fixed suffix in place of the id
suffixed_name_no_id(base, candidate_id, ext) ==
    base \o <<"_", "c", "o", "p", "y">> \o ext

\* f"{base}_({candidate_id}){ext}"
suffixed_name(base, candidate_id, ext) ==
    base \o <<"_", "(">> \o DecStr(candidate_id) \o <<")">> \o ext

\* _get_unique_save_path without the os.path.exists check
get_unique_save_path_unchecked(candidate_id, original_filename, existing) ==
    JoinUpload(safe_filename(original_filename))

\* _get_unique_save_path, with os.path.exists answered from the directory
\* contents `existing` (the set of paths that hold a file)
get_unique_save_path(candidate_id, original_filename, existing) ==
    LET safe_name == safe_filename(original_filename)
        base == SplitExt(safe_name)[1]
        ext == SplitExt(safe_name)[2]
        path == JoinUpload(safe_name)
    IN  IF path \notin existing
        THEN path
        ELSE JoinUpload(suffixed_name(base, candidate_id, ext))

(***************************************************************************)
(* CandidateBase: the field constraints and the three validators.          *)
(***************************************************************************)
\* A float, counted in tenths (60.0 is Float(600)), or float("nan")
Float(tenths) == [nan |-> FALSE, tenths |-> tenths]

NaN == [nan |-> TRUE, tenths |-> 0]

\* a >= b on floats: every comparison with NaN is false
FloatGe(a, b) == ~a.nan /\ ~b.nan /\ a.tenths >= b.tenths

\* A DOB form string: one date.fromisoformat parses, to the day it names
\* (days are counted from the day the clock starts), or one it rejects
IsoDate(day) == [iso |-> TRUE, day |-> day]

Malformed == [iso |-> FALSE, day |-> 0]

\* len(s) of a Full_Name, Address or Qualification, which are represented
\* by their lengths
TextLen(s) == s

\* Field(min_length=lo, max_length=hi) on a str
LengthOk(s, lo, hi) == lo <= TextLen(s) /\ TextLen(s) <= hi

\* Field(ge=lo, le=hi) on an int
IntRangeOk(v, lo, hi) == lo <= v /\ v <= hi

\* Field(ge=lo, le=hi) on a float
FloatRangeOk(v, lo, hi) == FloatGe(v, Float(lo)) /\ FloatGe(Float(hi), v)

\* validate_dob: v > date.today() raises
dob_ok(v, today) == ~(v > today)

\* validate_contact_number: the digits are kept when there are 10 to 15
contact_number_ok(v) ==
    LET digits == normalize_phone(v)
    IN  ~(Len(digits) < 10 \/ Len(digits) > 15)

\* validate_skills: [s.strip() for s in v if s and s.strip()]
validate_skills(v) ==
    LET kept == SelectSeq(v, LAMBDA s : s # <<>> /\ Strip(s, Whitespace) # <<>>)
    IN  [i \in 1..Len(kept) |-> Strip(kept[i], Whitespace)]

\* Skills: List[str] = Field(..., min_length=1), then validate_skills
skills_ok(v) == Len(v) >= 1 /\ validate_skills(v) # <<>>

\* ValidationErrors stopping at the first field that fails
ValidationErrorsFailFast(form, dob_date, skills_list, today) ==
    IF ~LengthOk(form.Full_Name, 2, 100) THEN {"OutOfRange:Full_Name"}
    ELSE IF ~dob_ok(dob_date, today) THEN {"FutureDate"}
    ELSE IF ~contact_number_ok(form.Contact_Number) THEN {"InvalidPhone"}
    ELSE IF ~LengthOk(form.Address, 5, 300) THEN {"OutOfRange:Address"}
    ELSE IF ~LengthOk(form.Qualification, 2, 120) THEN {"OutOfRange:Qualification"}
    ELSE IF ~IntRangeOk(form.Graduation_Year, 1950, 2100)
    THEN {"OutOfRange:Graduation_Year"}
    ELSE IF ~FloatRangeOk(form.Years_of_Experience, 0, 600)
    THEN {"OutOfRange:Years_of_Experience"}
    ELSE IF ~skills_ok(skills_list) THEN {"EmptySkills"}
    ELSE {}

\* The errors CandidateBase(...) raises for the form, all fields together
\* (pydantic checks every field and raises one ValidationError).
ValidationErrors(form, dob_date, skills_list, today) ==
    (IF LengthOk(form.Full_Name, 2, 100) THEN {} ELSE {"OutOfRange:Full_Name"})
    \cup (IF dob_ok(dob_date, today) THEN {} ELSE {"FutureDate"})
    \cup (IF contact_number_ok(form.Contact_Number) THEN {} ELSE {"InvalidPhone"})
    \cup (IF LengthOk(form.Address, 5, 300) THEN {} ELSE {"OutOfRange:Address"})
    \cup (IF LengthOk(form.Qualification, 2, 120)
          THEN {} ELSE {"OutOfRange:Qualification"})
    \cup (IF IntRangeOk(form.Graduation_Year, 1950, 2100)
          THEN {} ELSE {"OutOfRange:Graduation_Year"})
    \cup (IF FloatRangeOk(form.Years_of_Experience, 0, 600)
          THEN {} ELSE {"OutOfRange:Years_of_Experience"})
    \cup (IF skills_ok(skills_list) THEN {} ELSE {"EmptySkills"})

\* base.model_dump(): the validated fields
CandidateBase(form, dob_date, skills_list) ==
    [ Full_Name           |-> form.Full_Name,
      DOB                 |-> dob_date,
      Contact_Number      |-> normalize_phone(form.Contact_Number),
      Address             |-> form.Address,
      Qualification       |-> form.Qualification,
      Graduation_Year     |-> form.Graduation_Year,
      Years_of_Experience |-> form.Years_of_Experience,
      Skills              |-> validate_skills(skills_list) ]

\* CandidateOut(id=..., **base.model_dump(), resume_filename=..., ...)
CandidateOut(candidate_id, base, stored_path, now) ==
    [ id                  |-> candidate_id,
      Full_Name           |-> base.Full_Name,
      DOB                 |-> base.DOB,
      Contact_Number      |-> base.Contact_Number,
      Address             |-> base.Address,
      Qualification       |-> base.Qualification,
      Graduation_Year     |-> base.Graduation_Year,
      Years_of_Experience |-> base.Years_of_Experience,
      Skills              |-> base.Skills,
      resume_filename     |-> Basename(stored_path),
      resume_path         |-> stored_path,
      created_at          |-> now ]


(***************************************************************************)
(* The requests the model sends.                                           *)
(***************************************************************************)
\* the string of n copies of c
Rep(c, n) == [i \in 1..n |-> c]

\* A Full_Name, Address or Qualification of n characters.  The code takes
\* only the length of these three fields and stores them as they came, so
\* such a text is represented by its length.
Text(n) == n

\* the last calendar day the bounded clock reaches
LastDay == MaxClock \div TicksPerDay

\* every field at the lower end of its range; ten digits, formatted;
\* "Python, python, SQL"
LowForm ==
    [ Full_Name           |-> Text(2),
      DOB                 |-> IsoDate(0),
      Contact_Number      |-> <<"(", "5", "5", "5", ")", " ", "0", "1", "0", "-",
                                "0", "1", "9", "9">>,
      Address             |-> Text(5),
      Qualification       |-> Text(2),
      Graduation_Year     |-> 1950,
      Years_of_Experience |-> Float(0),
      Skills              |-> <<"P", "y", "t", "h", "o", "n", ",", " ", "p", "y",
                                "t", "h", "o", "n", ",", " ", "S", "Q", "L">> ]

\* every field at the upper end of its range; born on the last day of the
\* clock, so accepted only on that day
HighForm ==
    [ Full_Name           |-> Text(100),
      DOB                 |-> IsoDate(LastDay),
      Contact_Number      |-> Rep("7", 15),
      Address             |-> Text(300),
      Qualification       |-> Text(120),
      Graduation_Year     |-> 2100,
      Years_of_Experience |-> Float(600),
      Skills              |-> <<"G", "o">> ]

\* forms that break exactly one rule, next to the bound they break
OneRuleBroken ==
    { [LowForm EXCEPT !.Full_Name = Text(1)],
      [LowForm EXCEPT !.DOB = Malformed],
      [LowForm EXCEPT !.DOB = IsoDate(LastDay + 1)],
      [LowForm EXCEPT !.Contact_Number = <<"a", "b", "c">>],
      [LowForm EXCEPT !.Contact_Number = Rep("7", 9)],
      [LowForm EXCEPT !.Address = Text(4)],
      [LowForm EXCEPT !.Qualification = Text(1)],
      [LowForm EXCEPT !.Graduation_Year = 1949],
      [LowForm EXCEPT !.Years_of_Experience = Float(-1)],
      [LowForm EXCEPT !.Years_of_Experience = NaN],
      [LowForm EXCEPT !.Skills = <<>>],
      [LowForm EXCEPT !.Skills = <<" ", ",", " ", ",">>],
      [HighForm EXCEPT !.Full_Name = Text(101)],
      [HighForm EXCEPT !.Contact_Number = Rep("7", 16)],
      [HighForm EXCEPT !.Address = Text(301)],
      [HighForm EXCEPT !.Qualification = Text(121)],
      [HighForm EXCEPT !.Graduation_Year = 2101],
      [HighForm EXCEPT !.Years_of_Experience = Float(601)] }

\* forms that break several rules at once
SeveralRulesBroken ==
    { [LowForm EXCEPT !.DOB = IsoDate(LastDay + 1),
                      !.Contact_Number = <<"a", "b", "c">>,
                      !.Skills = <<>>],
      [LowForm EXCEPT !.DOB = Malformed,
                      !.Contact_Number = <<"a", "b", "c">>,
                      !.Skills = <<>>] }

\* ten decimal digits, none of them ASCII
ArabicForm == [LowForm EXCEPT !.Contact_Number = Rep("U+0663", 10)]

ValidForms == {LowForm, HighForm, ArabicForm}

Forms == ValidForms \cup OneRuleBroken \cup SeveralRulesBroken

CvPdf == <<"c", "v", ".", "p", "d", "f">>

MyCvDoc == <<"m", "y", " ", "c", "v", ".", "D", "O", "C">>

ResumeTxt == <<"r", "e", "s", "u", "m", "e", ".", "t", "x", "t">>

GoodFilenames == {CvPdf, MyCvDoc}

\* Resume.filename values the file-type gate refuses; <<>> stands for an
\* upload without a filename
BadFilenames == {ResumeTxt, <<".", "p", "d", "f">>, <<>>}

Filenames == GoodFilenames \cup BadFilenames

\* Creation requests, as <<form, filename>>.  AllRequests: every valid
\* form with every good filename, every form with cv.pdf, and a valid form
\* and the forms that break several rules with every refused filename.
AllRequests ==
    (ValidForms \X GoodFilenames)
    \cup (Forms \X {CvPdf})
    \cup (({LowForm} \cup SeveralRulesBroken) \X BadFilenames)

\* CoreRequests: two requests that are accepted (the second only on the
\* last day), and one for each way of being refused
CoreRequests ==
    { <<LowForm, CvPdf>>,
      <<HighForm, MyCvDoc>>,
      <<LowForm, ResumeTxt>>,
      <<[LowForm EXCEPT !.DOB = Malformed], CvPdf>>,
      <<[LowForm EXCEPT !.Contact_Number = <<"a", "b", "c">>], CvPdf>> }

\* files the upload directory may hold when the process starts (left by an
\* earlier run, whose ids also started at 1)
LeftOver == { JoinUpload(CvPdf), JoinUpload(suffixed_name(<<"c", "v">>, 1, <<".", "p", "d", "f">>)) }

(***************************************************************************)
(* State.                                                                  *)
(***************************************************************************)
VARIABLES
    CANDIDATES,  \* the dict, as the sequence of its values in insertion order
    NEXT_ID,     \* the id counter
    files,       \* the upload directory: path -> [owner, complete]
    pending,     \* upload_candidate coroutines suspended at `await Resume.read()`
    clock,       \* the system clock, in ticks
    last,        \* the request handled last and its response
    allocLog,    \* history: the ids given out, in order, each with the day
                 \* (date.today()) on which its request was validated
    deleted,     \* history: the id and resume_path of the records popped,
                 \* whether the file was missing and whether os.remove raised
    call         \* a helper called on its own: [fn, arg, result, done], done
                 \* once the helper has returned

vars == <<CANDIDATES, NEXT_ID, files, pending, clock, last, allocLog, deleted, call>>

\* date.today()
Today == clock \div TicksPerDay

\* the elements of a sequence
Range(s) == {s[k] : k \in 1..Len(s)}

\* the ids in the dict
Ids == {CANDIDATES[k].id : k \in 1..Len(CANDIDATES)}

\* CANDIDATES[candidate_id]
Lookup(candidate_id) ==
    CANDIDATES[CHOOSE k \in 1..Len(CANDIDATES) : CANDIDATES[k].id = candidate_id]

\* the paths at which os.path.exists is true
Existing == DOMAIN files

\* last: the method, the id and the status code of the last POST or DELETE
\* request; status 0 is a creation suspended at its await, without a
\* response yet.  For a creation, request is <<form, filename, today>> as
\* the handler received them, and errors the kinds of error the detail of
\* its HTTPException reports.  GET requests change nothing: their responses
\* are the operators get_response and list_results.
Response(op, id, status) ==
    [op |-> op, id |-> id, status |-> status, request |-> <<>>, errors |-> {}]

\* no helper has been called on its own
NoCall == [fn |-> "", arg |-> <<>>, result |-> <<>>, done |-> TRUE]

Init ==
    /\ CANDIDATES = <<>>
    /\ NEXT_ID = 1
    /\ \E left \in SUBSET LeftOver :
           files = [p \in left |-> [owner |-> 0, complete |-> TRUE]]
    /\ pending = {}
    /\ clock = 0
    /\ last = Response("start", 0, 0)
    /\ allocLog = <<>>
    /\ deleted = {}
    /\ call = NoCall


(***************************************************************************)
(* POST /candidates: upload_candidate.  The handler runs without           *)
(* suspension from its entry to `await Resume.read()` (line 154), and      *)
(* again from there to its return: two steps.                              *)
(***************************************************************************)
\* Rejection with the file-type gate moved behind the field validation
RejectionFieldsFirst(form, filename, today) ==
    LET ext == Lower(SplitExt(filename)[2])
        errors == ValidationErrors(form, form.DOB.day, parse_skills(form.Skills),
                                   today)
    IN  IF ~form.DOB.iso
        THEN [status |-> 422, errors |-> {"InvalidDateFormat"}]
        ELSE IF errors # {}
        THEN [status |-> 422, errors |-> errors]
        ELSE IF ext \notin ALLOWED_EXTENSIONS
        THEN [status |-> 415, errors |-> {"UnsupportedFileType"}]
        ELSE [status |-> 0, errors |-> {}]

\* The HTTPException the handler raises before line 148, as
\* [status, errors]; status 0 when it raises none.
Rejection(form, filename, today) ==
    LET ext == Lower(SplitExt(filename)[2])
        errors == ValidationErrors(form, form.DOB.day, parse_skills(form.Skills),
                                   today)
    IN  IF ext \notin ALLOWED_EXTENSIONS
        THEN [status |-> 415, errors |-> {"UnsupportedFileType"}]
        ELSE IF ~form.DOB.iso
        THEN [status |-> 422, errors |-> {"InvalidDateFormat"}]
        ELSE IF errors # {}
        THEN [status |-> 422, errors |-> errors]
        ELSE [status |-> 0, errors |-> {}]

\* Reject with the id taken before the checks (lines 148-149 moved up)
RejectAfterAllocation(request, rejection) ==
    /\ last' = [Response("upload", 0, rejection.status)
                    EXCEPT !.request = request, !.errors = rejection.errors]
    /\ NEXT_ID' = NEXT_ID + 1
    /\ UNCHANGED <<CANDIDATES, files, pending, clock, allocLog, deleted, call>>

\* raise HTTPException(...): the handler ends, nothing has been touched
Reject(request, rejection) ==
    /\ last' = [Response("upload", 0, rejection.status)
                    EXCEPT !.request = request, !.errors = rejection.errors]
    /\ UNCHANGED <<CANDIDATES, NEXT_ID, files, pending, clock, allocLog, deleted,
                   call>>

\* next_id with the increment forgotten
next_id_forgotten(n) == n

\* NEXT_ID += 1
next_id(n) == n + 1

\* lines 148-154: take the id, resolve the path, suspend at the await
AllocateAndSuspend(form, filename) ==
    LET candidate_id == NEXT_ID
        base == CandidateBase(form, form.DOB.day, parse_skills(form.Skills))
        original_name == IF filename # <<>> THEN filename
                         ELSE <<"r", "e", "s", "u", "m", "e">>
        stored_path == get_unique_save_path(candidate_id, original_name, Existing)
    IN  /\ NEXT_ID' = next_id(NEXT_ID)
        /\ pending' = pending \cup { [ candidate_id  |-> candidate_id,
                                       original_name |-> original_name,
                                       stored_path   |-> stored_path,
                                       base          |-> base ] }
        /\ allocLog' = Append(allocLog, [id |-> candidate_id, validated_on |-> Today])
        /\ last' = [Response("upload", candidate_id, 0)
                        EXCEPT !.request = <<form, filename, Today>>]
        /\ UNCHANGED <<CANDIDATES, files, clock, deleted, call>>

upload_candidate(form, filename) ==
    LET rejection == Rejection(form, filename, Today)
    IN  IF rejection.status # 0
        THEN Reject(<<form, filename, Today>>, rejection)
        ELSE /\ NEXT_ID <= MaxAlloc
             /\ Cardinality(pending) < MaxInFlight
             /\ AllocateAndSuspend(form, filename)

\* What the rest of the handler meets: the upload is read and the file
\* written, or `await Resume.read()` raises, or open() raises (no file is
\* created or truncated), or f.write raises after open() created or
\* truncated the file.
IoOutcomes == {"ok", "read_error", "open_error", "write_error"}

\* write_file with the write left out
write_file_skipped(dir, stored_path, candidate_id, io) == dir

\* with open(stored_path, "wb") as f: f.write(content)
write_file(dir, stored_path, candidate_id, io) ==
    IF io \in {"ok", "write_error"}
    THEN [p \in DOMAIN dir \cup {stored_path} |->
             IF p = stored_path
             THEN [owner |-> candidate_id, complete |-> (io = "ok")]
             ELSE dir[p]]
    ELSE dir

\* dict_set rebinding the dict to one that holds the new record only
dict_set_rebound(d, candidate) == <<candidate>>

\* CANDIDATES[candidate_id] = candidate: a present key keeps its place and
\* gets the new value, a new key goes last
dict_set(d, candidate) ==
    IF \E k \in 1..Len(d) : d[k].id = candidate.id
    THEN [k \in 1..Len(d) |-> IF d[k].id = candidate.id THEN candidate ELSE d[k]]
    ELSE Append(d, candidate)

\* lines 154-167, for the coroutine co
upload_candidate_resume(co, io) ==
    LET candidate == CandidateOut(co.candidate_id, co.base, co.stored_path, clock)
    IN  /\ pending' = pending \ {co}
        /\ files' = write_file(files, co.stored_path, co.candidate_id, io)
        /\ IF io = "ok"
           THEN /\ CANDIDATES' = dict_set(CANDIDATES, candidate)
                /\ last' = Response("upload", co.candidate_id, 201)
           ELSE /\ CANDIDATES' = CANDIDATES
                /\ last' = Response("upload", co.candidate_id, 500)
        /\ UNCHANGED <<NEXT_ID, clock, allocLog, deleted, call>>

(***************************************************************************)
(* GET /candidates: list_candidates.  An absent query parameter is <<>>,   *)
(* a given one <<value>>; `if skill:` also skips the empty string.         *)
(***************************************************************************)
\* SortByCreatedDesc with the sort left out
SortSkipped(results) == results

\* results.sort(key=lambda c: c.created_at, reverse=True): stable, so
\* records with equal created_at keep the order they had
RECURSIVE SortByCreatedDesc(_)
SortByCreatedDesc(results) ==
    IF results = <<>> THEN <<>>
    ELSE LET n == Len(results)
             c == results[n]
             front == SortByCreatedDesc(SubSeq(results, 1, n - 1))
             before == SelectSeq(front, LAMBDA x : x.created_at >= c.created_at)
             after == SelectSeq(front, LAMBDA x : x.created_at < c.created_at)
         IN  before \o <<c>> \o after

list_results(skill, Min_Experience, Graduation_Year) ==
    LET s == Lower(Strip(skill, Whitespace))
        bySkill == IF skill # <<>>
                   THEN SelectSeq(CANDIDATES, LAMBDA c :
                            \E k \in 1..Len(c.Skills) : Lower(c.Skills[k]) = s)
                   ELSE CANDIDATES
        byExp == IF Min_Experience # <<>>
                 THEN SelectSeq(bySkill, LAMBDA c :
                          FloatGe(c.Years_of_Experience, Min_Experience[1]))
                 ELSE bySkill
        byYear == IF Graduation_Year # <<>>
                  THEN SelectSeq(byExp, LAMBDA c :
                           c.Graduation_Year = Graduation_Year[1])
                  ELSE byExp
    IN  SortByCreatedDesc(byYear)

list_candidates(skill, Min_Experience, Graduation_Year) ==
    /\ list_results(skill, Min_Experience, Graduation_Year) \in Seq(Range(CANDIDATES))
    /\ UNCHANGED vars

SkillFilters == { <<>>, <<"p", "y", "t", "h", "o", "n">> }

\* ?skill=%20Python%20: a skill filter with whitespace around it
PaddedSkill == <<" ", "P", "y", "t", "h", "o", "n", " ">>

ExperienceFilters == { <<>>, <<Float(10)>> }

YearFilters == { <<>>, <<1950>> }

(***************************************************************************)
(* GET and DELETE /candidates/{id}.  Both handlers take their id from the  *)
(* parameter candidate_id.                                                 *)
(***************************************************************************)
\* the response of get_candidate: the record, or 404
get_response(candidate_id) ==
    IF candidate_id \in Ids
    THEN [status |-> 200, body |-> <<Lookup(candidate_id)>>]
    ELSE [status |-> 404, body |-> <<>>]

get_candidate(candidate_id) ==
    /\ get_response(candidate_id).status \in {200, 404}
    /\ UNCHANGED vars

\* dict_pop reading the record without removing it (.get for .pop)
dict_pop_kept(d, candidate_id) == d

\* CANDIDATES.pop(candidate_id, None): the dict without the key
dict_pop(d, candidate_id) == SelectSeq(d, LAMBDA c : c.id # candidate_id)

\* os.remove(path) either removes the file or raises
RemoveOutcomes == {"ok", "error"}

\* if candidate.resume_path and os.path.exists(...): os.remove(...), inside
\* try/except Exception: pass
remove_file(dir, resume_path, rm) ==
    IF resume_path # <<>> /\ resume_path \in DOMAIN dir /\ rm = "ok"
    THEN [p \in DOMAIN dir \ {resume_path} |-> dir[p]]
    ELSE dir

\* delete_status answering 404 when the resume file of the record is missing
delete_status_file_required(candidate_id) ==
    IF candidate_id \in Ids /\ Lookup(candidate_id).resume_path \in DOMAIN files
    THEN 200
    ELSE 404

\* the status of delete_candidate's response
delete_status(candidate_id) == IF candidate_id \in Ids THEN 200 ELSE 404

delete_candidate(candidate_id, rm) ==
    IF delete_status(candidate_id) = 200
    THEN LET candidate == Lookup(candidate_id)
         IN  /\ CANDIDATES' = dict_pop(CANDIDATES, candidate_id)
             /\ files' = remove_file(files, candidate.resume_path, rm)
             /\ deleted' = deleted \cup
                    { [ id           |-> candidate.id,
                        resume_path  |-> candidate.resume_path,
                        file_missing |-> candidate.resume_path \notin DOMAIN files,
                        remove_error |-> (rm = "error"
                                          /\ candidate.resume_path \in DOMAIN files) ] }
             /\ last' = Response("delete", candidate_id, 200)
             /\ UNCHANGED <<NEXT_ID, pending, clock, allocLog, call>>
    ELSE /\ rm = "ok"
         /\ last' = Response("delete", candidate_id, 404)
         /\ UNCHANGED <<CANDIDATES, NEXT_ID, files, pending, clock, allocLog, deleted,
                        call>>

\* the ids a request may name: those that can be allocated, and one more
RequestIds == 1..(MaxAlloc + 1)

(***************************************************************************)
(* The clock.                                                              *)
(***************************************************************************)
Tick ==
    /\ clock < MaxClock
    /\ clock' = clock + 1
    /\ UNCHANGED <<CANDIDATES, NEXT_ID, files, pending, last, allocLog, deleted, call>>

(***************************************************************************)
(* Spec: requests arrive at any time; a creation suspended at its await    *)
(* lets any other handler run before it resumes.                           *)
(***************************************************************************)
Next ==
    \/ \E req \in CoreRequests : upload_candidate(req[1], req[2])
    \/ \E co \in pending, io \in IoOutcomes : upload_candidate_resume(co, io)
    \/ \E skill \in SkillFilters \cup {PaddedSkill},
          e \in ExperienceFilters, y \in YearFilters :
           list_candidates(skill, e, y)
    \/ \E candidate_id \in RequestIds : get_candidate(candidate_id)
    \/ \E candidate_id \in RequestIds, rm \in RemoveOutcomes :
           delete_candidate(candidate_id, rm)
    \/ Tick

Spec == Init /\ [][Next]_vars

(***************************************************************************)
(* SpecSeq: requests are handled one at a time; nothing else runs while a  *)
(* creation is suspended at its await.                                     *)
(***************************************************************************)
Quiet == pending = {}

NextSeq ==
    \/ Quiet /\ \E req \in CoreRequests : upload_candidate(req[1], req[2])
    \/ \E co \in pending, io \in IoOutcomes : upload_candidate_resume(co, io)
    \/ Quiet /\ \E skill \in SkillFilters \cup {PaddedSkill},
                      e \in ExperienceFilters, y \in YearFilters :
                    list_candidates(skill, e, y)
    \/ Quiet /\ \E candidate_id \in RequestIds : get_candidate(candidate_id)
    \/ Quiet /\ \E candidate_id \in RequestIds, rm \in RemoveOutcomes :
                    delete_candidate(candidate_id, rm)
    \/ Tick

SpecSeq == Init /\ [][NextSeq]_vars

(***************************************************************************)
(* SpecSeqEmpty: as SpecSeq, from an empty upload directory, with one      *)
(* more request, whose filename looks like a resolved name.                *)
(***************************************************************************)
InitEmpty == Init /\ DOMAIN files = {}

\* a Resume.filename that is the name the resolver gives a second cv.pdf
CvTwoPdf == <<"c", "v", "_", "(", "2", ")", ".", "p", "d", "f">>

EmptyDirRequests == CoreRequests \cup { <<LowForm, CvTwoPdf>> }

NextSeqEmpty ==
    \/ Quiet /\ \E req \in EmptyDirRequests : upload_candidate(req[1], req[2])
    \/ \E co \in pending, io \in IoOutcomes : upload_candidate_resume(co, io)
    \/ Quiet /\ \E skill \in SkillFilters \cup {PaddedSkill},
                      e \in ExperienceFilters, y \in YearFilters :
                    list_candidates(skill, e, y)
    \/ Quiet /\ \E candidate_id \in RequestIds : get_candidate(candidate_id)
    \/ Quiet /\ \E candidate_id \in RequestIds, rm \in RemoveOutcomes :
                    delete_candidate(candidate_id, rm)
    \/ Tick

SpecSeqEmpty == InitEmpty /\ [][NextSeqEmpty]_vars

(***************************************************************************)
(* SpecForms: every form of AllRequests, one request at a time; once       *)
(* FormsAlloc requests have been given an id, only requests that are       *)
(* rejected.                                                               *)
(***************************************************************************)
NextForms ==
    \/ /\ Quiet
       /\ \E req \in AllRequests :
              /\ \/ Len(allocLog) < FormsAlloc
                 \/ Rejection(req[1], req[2], Today).status # 0
              /\ upload_candidate(req[1], req[2])
    \/ \E co \in pending, io \in IoOutcomes : upload_candidate_resume(co, io)
    \/ Quiet /\ \E candidate_id \in RequestIds, rm \in RemoveOutcomes :
                    delete_candidate(candidate_id, rm)
    \/ Tick

SpecForms == Init /\ [][NextForms]_vars

(***************************************************************************)
(* SpecHelpers: _safe_filename and _parse_skills called on their own, on   *)
(* every string up to a length over a small alphabet.                      *)
(***************************************************************************)
\* the strings of at most n characters of alphabet
StringsUpTo(alphabet, n) == UNION { [1..k -> alphabet] : k \in 0..n }

\* safe characters of each kind, the underscore, and two unsafe characters
NameAlphabet == {"a", "Z", "7", ".", "-", "_", " ", "U+00E9"}

NameInputs == StringsUpTo(NameAlphabet, MaxNameLen) \cup Filenames

\* a skill in both casings, another skill, the blank and the comma
SkillsAlphabet == {"a", "A", "b", " ", ","}

SkillsInputs == StringsUpTo(SkillsAlphabet, MaxSkillsLen) \cup {LowForm.Skills}

Called(fn, arg) == [fn |-> fn, arg |-> arg, result |-> <<>>, done |-> FALSE]

InitHelpers ==
    /\ CANDIDATES = <<>>
    /\ NEXT_ID = 1
    /\ files = <<>>
    /\ pending = {}
    /\ clock = 0
    /\ last = Response("start", 0, 0)
    /\ allocLog = <<>>
    /\ deleted = {}
    /\ call \in {Called("safe_filename", name) : name \in NameInputs}
               \cup {Called("parse_skills", skills_raw) : skills_raw \in SkillsInputs}

safe_filename_call ==
    /\ call.fn = "safe_filename" /\ ~call.done
    /\ call' = [call EXCEPT !.result = safe_filename(call.arg), !.done = TRUE]
    /\ UNCHANGED <<CANDIDATES, NEXT_ID, files, pending, clock, last, allocLog, deleted>>

parse_skills_call ==
    /\ call.fn = "parse_skills" /\ ~call.done
    /\ call' = [call EXCEPT !.result = parse_skills(call.arg), !.done = TRUE]
    /\ UNCHANGED <<CANDIDATES, NEXT_ID, files, pending, clock, last, allocLog, deleted>>

NextHelpers == safe_filename_call \/ parse_skills_call

SpecHelpers == InitHelpers /\ [][NextHelpers]_vars

(***************************************************************************)
(* The claims.                                                             *)
(***************************************************************************)
\* the records the service has stored so far and delete_candidate has not
\* popped
Stored == Range(CANDIDATES)

\* the ids given out so far
AllocatedIds == {allocLog[k].id : k \in 1..Len(allocLog)}

(* C1: over any sequence of creations and deletions, the ids given out are
   strictly increasing in allocation order and start at 1, no two records
   have the same id, and the id of a deleted record is never given to a
   later record (it is below the counter and held by no stored record). *)
C1_IdsIncreaseFromOneNeverReused ==
    /\ allocLog # <<>> => allocLog[1].id = 1
    /\ \A j, k \in 1..Len(allocLog) : j < k => allocLog[j].id < allocLog[k].id
    /\ \A k \in 1..Len(allocLog) : allocLog[k].id < NEXT_ID
    /\ \A j, k \in 1..Len(CANDIDATES) : j # k => CANDIDATES[j].id # CANDIDATES[k].id
    /\ \A c \in Stored : c.id \in AllocatedIds
    /\ \A d \in deleted : d.id \in AllocatedIds /\ d.id \notin Ids

\* a record is stored under an id given out after the id of a deleted one
C1_Witness ==
    /\ Len(allocLog) >= 2
    /\ \E d \in deleted : \E c \in Stored : c.id > d.id

\* the day on which the request of record c was validated
ValidatedOn(c) ==
    allocLog[CHOOSE k \in 1..Len(allocLog) : allocLog[k].id = c.id].validated_on

\* the field constraints of the data model on one stored record, with the
\* contact number made of the digits of `digits`
FieldConstraints(c, digits) ==
    /\ 2 <= TextLen(c.Full_Name) /\ TextLen(c.Full_Name) <= 100
    /\ c.DOB <= ValidatedOn(c)
    /\ \A i \in 1..Len(c.Contact_Number) : c.Contact_Number[i] \in digits
    /\ 10 <= Len(c.Contact_Number) /\ Len(c.Contact_Number) <= 15
    /\ 5 <= TextLen(c.Address) /\ TextLen(c.Address) <= 300
    /\ 2 <= TextLen(c.Qualification) /\ TextLen(c.Qualification) <= 120
    /\ 1950 <= c.Graduation_Year /\ c.Graduation_Year <= 2100
    /\ ~c.Years_of_Experience.nan
    /\ 0 <= c.Years_of_Experience.tenths /\ c.Years_of_Experience.tenths <= 600
    /\ c.Skills # <<>>
    /\ \A i \in 1..Len(c.Skills) :
           c.Skills[i] # <<>> /\ \E j \in 1..Len(c.Skills[i]) :
                                     c.Skills[i][j] \notin Whitespace
    /\ \A i, j \in 1..Len(c.Skills) :
           i # j => Lower(c.Skills[i]) # Lower(c.Skills[j])

(* C2: in every reachable state every stored record satisfies all field
   constraints at once: name length in [2,100], date of birth not after
   the day of its validation, contact number of 10 to 15 digits (the
   characters 0 to 9) and nothing else, address length in [5,300],
   qualification length in [2,120], graduation year in [1950,2100], years
   of experience in [0,60], skills non-empty, each non-empty, no two equal
   case-insensitively. *)
C2_StoredRecordsSatisfyConstraints ==
    \A c \in Stored : FieldConstraints(c, AsciiDigits)

(* C3: a creation request that fails at any step leaves no record for it in
   the store and no file written by it in the upload directory. *)
C3_FailedCreationLeavesNothing ==
    [][ (last'.op = "upload" /\ last'.status \in {415, 422, 500} /\ last' # last)
        => /\ last'.id \notin {c.id : c \in Range(CANDIDATES')}
           /\ \A p \in DOMAIN files' :
                  files'[p].owner = last'.id
                      => p \in DOMAIN files /\ files[p] = files'[p] ]_vars

(* C4: a record is inserted only after its resume file has been written: in
   the step that inserts a record, the request is answered 201 and a
   completely written file of that request exists at the record's
   resume_path; a request whose read, open or write fails (500) inserts
   nothing. *)
C4_InsertOnlyAfterFileWritten ==
    [][ /\ \A c \in Range(CANDIDATES') \ Range(CANDIDATES) :
               /\ last' = Response("upload", c.id, 201)
               /\ c.resume_path \in DOMAIN files'
               /\ files'[c.resume_path] = [owner |-> c.id, complete |-> TRUE]
        /\ (last'.status = 500 /\ last' # last) => CANDIDATES' = CANDIDATES ]_vars

\* a record has just been inserted and its file is there, and an earlier
\* creation has failed at its write and left no record
C4_Witness ==
    /\ last.op = "upload" /\ last.status = 201
    /\ last.id \in Ids
    /\ Lookup(last.id).resume_path \in DOMAIN files
    /\ \E p \in DOMAIN files : ~files[p].complete /\ files[p].owner \notin Ids

(* C5: with requests handled one at a time and whatever the upload directory
   held at the start, the path a creation writes to holds no file
   immediately before the write, so no creation overwrites a file. *)
C5_WritesOnlyToFreePaths ==
    [][ \A co \in pending \ pending' :
            files' # files => co.stored_path \notin DOMAIN files ]_vars

\* s occurs in p as a run of consecutive characters
Embeds(p, s) == \E k \in 0..(Len(p) - Len(s)) : SubSeq(p, k + 1, k + Len(s)) = s

\* <uploadDir>/safeFilename(F)
Unresolved(F) == UPLOAD_DIR \o <<"/">> \o safe_filename(F)

\* <uploadDir>/<base>_(<i>)<extension>, base and extension those of
\* safeFilename(F)
Alternate(F, i) ==
    UPLOAD_DIR \o <<"/">> \o SplitExt(safe_filename(F))[1]
        \o <<"_", "(">> \o DecStr(i) \o <<")">> \o SplitExt(safe_filename(F))[2]

\* the resolution rule, for the coroutine co that has just resolved its
\* path against the directory contents dir
ResolutionRule(co, dir) ==
    IF Unresolved(co.original_name) \notin DOMAIN dir
    THEN co.stored_path = Unresolved(co.original_name)
    ELSE /\ co.stored_path = Alternate(co.original_name, co.candidate_id)
         /\ co.stored_path # Unresolved(co.original_name)
         /\ Embeds(co.stored_path, DecStr(co.candidate_id))

\* uploads/cv_(<i>).pdf
CvPathFor(i) ==
    <<"u", "p", "l", "o", "a", "d", "s", "/", "c", "v", "_", "(">> \o DecStr(i)
        \o <<")", ".", "p", "d", "f">>

\* record c was uploaded under the name cv.pdf
UploadedAsCv(c) ==
    c.resume_path \in {UPLOAD_DIR \o <<"/">> \o CvPdf, CvPathFor(c.id)}

\* the ids of the records created so far, deleted ones included
CreatedIds == Ids \cup {d.id : d \in deleted}

(* C6, as claimed: a creation with id i and filename F resolves to
   <uploadDir>/safeFilename(F) when no file exists there, and otherwise to
   <uploadDir>/<base>_(<i>)<extension>, which differs from it and embeds i;
   and when the candidate created last uploaded cv.pdf and is still stored,
   a candidate who uploads cv.pdf gets uploads/cv_(<its id>).pdf. *)
C6_ResolutionAndTwoCvScenario ==
    [][ \A co \in pending' \ pending :
            /\ ResolutionRule(co, files)
            /\ ( /\ co.original_name = CvPdf
                 /\ \E c \in Stored :
                        /\ UploadedAsCv(c)
                        /\ \A i \in CreatedIds : i <= c.id )
               => co.stored_path = CvPathFor(co.candidate_id) ]_vars

(* C6, amended: the resolution rule as claimed; and a candidate who uploads
   cv.pdf while a stored record has its resume at uploads/cv.pdf gets
   uploads/cv_(<its id>).pdf. *)
C6_ResolutionAndCvCollision ==
    [][ \A co \in pending' \ pending :
            /\ ResolutionRule(co, files)
            /\ ( /\ co.original_name = CvPdf
                 /\ \E c \in Stored : c.resume_path = UPLOAD_DIR \o <<"/">> \o CvPdf )
               => co.stored_path = CvPathFor(co.candidate_id) ]_vars

\* the second of two cv.pdf uploads is stored at uploads/cv_(2).pdf beside
\* the first, and another upload was stored at its unresolved path
C6_Witness ==
    /\ \E c \in Stored : c.id = 1 /\ c.resume_path = UPLOAD_DIR \o <<"/">> \o CvPdf
    /\ \E c \in Stored : c.id = 2 /\ c.resume_path = CvPathFor(2)
    /\ \E c \in Stored : c.id = 3 /\ c.resume_path = Unresolved(MyCvDoc)

(* C7: with creations interleaving at the await, no two requests are given
   the same id (neither two suspended ones, nor a suspended one and a
   stored record), and the insert of a request replaces no record: it
   leaves every record already in the store in place. *)
C7_NoSharedIdNoReplacedRecord ==
    [][ /\ \A a, b \in pending' : a # b => a.candidate_id # b.candidate_id
        /\ \A co \in pending' : co.candidate_id \notin {c.id : c \in Range(CANDIDATES')}
        /\ \A j, k \in 1..Len(allocLog') : j # k => allocLog'[j].id # allocLog'[k].id
        /\ last'.op = "upload"
              => \A k \in 1..Len(CANDIDATES) :
                     k <= Len(CANDIDATES') /\ CANDIDATES'[k] = CANDIDATES[k] ]_vars

\* two creations were in flight together and finished in the other order:
\* the record with the larger id was inserted first
C7_Witness ==
    \E j, k \in 1..Len(CANDIDATES) : j < k /\ CANDIDATES[j].id > CANDIDATES[k].id

(* C8: with creations interleaving at the await, no two requests resolve to
   and write the same path: no write replaces a file written by another
   request, and no two stored records have the same resume_path. *)
C8_NoTwoRequestsSamePath ==
    [][ /\ \A co \in pending \ pending' :
               (files' # files /\ co.stored_path \in DOMAIN files)
                   => files[co.stored_path].owner \in {0, co.candidate_id}
        /\ \A j, k \in 1..Len(CANDIDATES') :
               j # k => CANDIDATES'[j].resume_path # CANDIDATES'[k].resume_path ]_vars

\* every combination of the filters of a listing
ListFilters == SkillFilters \X ExperienceFilters \X YearFilters

\* no listing shows id i, and looking it up or deleting it reports 404
Gone(i) ==
    /\ \A f \in ListFilters :
           \A k \in 1..Len(list_results(f[1], f[2], f[3])) :
               list_results(f[1], f[2], f[3])[k].id # i
    /\ get_response(i).status = 404
    /\ delete_status(i) = 404

(* C9, as claimed: after a successful deletion of record i every listing
   omits i, every lookup or deletion of i reports 404, and no file exists
   at the resume_path that record i had. *)
C9_DeletedGoneAndFileGone ==
    \A d \in deleted : Gone(d.id) /\ d.resume_path \notin DOMAIN files

(* C9, amended: after a successful deletion of record i every listing omits
   i and every lookup or deletion of i reports 404; when the deletion
   returns, no file exists at the resume_path that record i had unless
   removing the file failed. *)
C9_DeletedGoneAndFileRemovedUnlessError ==
    /\ \A d \in deleted : Gone(d.id)
    /\ last = Response("delete", last.id, 200)
           => \A d \in deleted :
                  (d.id = last.id /\ ~d.remove_error)
                      => d.resume_path \notin DOMAIN files

\* a record was deleted and its file removed, while another is still listed
C9_Witness ==
    /\ \E d \in deleted : ~d.remove_error /\ d.resume_path \notin DOMAIN files
    /\ last.op = "delete" /\ last.status = 404 /\ last.id \in {d.id : d \in deleted}
    /\ CANDIDATES # <<>>

(* C10: a creation rejected at the file-type gate (415), at date parsing or
   at field validation (422) goes no further and has no effect: the store,
   the id counter, the upload directory and the suspended creations are
   as they were before the request. *)
C10_RejectedCreationChangesNothing ==
    [][ (last'.op = "upload" /\ last'.status \in {415, 422})
            => UNCHANGED <<CANDIDATES, NEXT_ID, files, pending>> ]_vars

\* a request has just been rejected while the store, the directory and a
\* suspended creation were there to be disturbed
C10_Witness ==
    /\ last.op = "upload" /\ last.status \in {415, 422}
    /\ CANDIDATES # <<>>
    /\ pending # {}
    /\ DOMAIN files # {}

\* the rules of creation a request <<form, filename>> violates on the day
\* today, a digit being a character of `digits`
RuleViolations(form, filename, today, digits) ==
    LET ext == Lower(SplitExt(filename)[2])
        digitCount == Len(SelectSeq(form.Contact_Number, LAMBDA c : c \in digits))
        years == form.Years_of_Experience
    IN  (IF ext \in { <<".", "p", "d", "f">>, <<".", "d", "o", "c">>,
                      <<".", "d", "o", "c", "x">> }
         THEN {} ELSE {"UnsupportedFileType"})
        \cup (IF form.DOB.day > today THEN {"FutureDate"} ELSE {})
        \cup (IF digitCount \in 10..15 THEN {} ELSE {"InvalidPhone"})
        \cup (IF parse_skills(form.Skills) = <<>> THEN {"EmptySkills"} ELSE {})
        \cup (IF TextLen(form.Full_Name) \in 2..100
              THEN {} ELSE {"OutOfRange:Full_Name"})
        \cup (IF TextLen(form.Address) \in 5..300
              THEN {} ELSE {"OutOfRange:Address"})
        \cup (IF TextLen(form.Qualification) \in 2..120
              THEN {} ELSE {"OutOfRange:Qualification"})
        \cup (IF form.Graduation_Year \in 1950..2100
              THEN {} ELSE {"OutOfRange:Graduation_Year"})
        \cup (IF ~years.nan /\ years.tenths \in 0..600
              THEN {} ELSE {"OutOfRange:Years_of_Experience"})

\* the decision of the creation answered last follows the rules, a digit
\* being a character of `digits`: it is accepted exactly when it violates
\* no rule, rejected 415 exactly when its extension is not allowed, and a
\* rejection reports only rules the request violates, at least one of them
\* (the very rule, when it violates only one)
DecisionFollowsRules(digits) ==
    (last.op = "upload" /\ last.request # <<>> /\ last.request[1].DOB.iso)
        => LET violated == RuleViolations(last.request[1], last.request[2],
                                          last.request[3], digits)
           IN  /\ (violated = {}) <=> (last.status \notin {415, 422})
               /\ ("UnsupportedFileType" \in violated) <=> (last.status = 415)
               /\ last.errors \subseteq violated
               /\ violated # {} => last.errors # {}

(* C11: for a creation request whose date of birth is a calendar date, the
   accept/reject decision follows the rules: UnsupportedFileType when the
   lower-cased extension is not .pdf, .doc or .docx; FutureDate when the
   date of birth is after today (equal to today is accepted); InvalidPhone
   when the number of digits (characters 0 to 9) of the contact number is
   outside 10..15; EmptySkills when the parsed skill list is empty;
   OutOfRange when a length or range rule is violated; and a request that
   violates none of them is accepted. *)
C11_DecisionFollowsRules == DecisionFollowsRules(AsciiDigits)

\* the same decision rules with every Unicode decimal digit counted as a
\* digit of the contact number
C11_DecisionWithUnicodeDigits == DecisionFollowsRules(DecimalDigits)

(* C12: once a creation has succeeded with record r and id i, every lookup
   of i made before i is deleted returns r, equal field for field (id and
   created_at included), whatever other requests are handled in between:
   the lookup returns the record in the step that inserts it, every step
   that leaves id i in the store leaves the answer of its lookup as it
   was, and only the deletion of i takes i out of the store. *)
C12_LookupReturnsCreatedRecord ==
    [][ /\ \A r \in Range(CANDIDATES') \ Range(CANDIDATES) :
               /\ last' = Response("upload", r.id, 201)
               /\ get_response(r.id)' = [status |-> 200, body |-> <<r>>]
        /\ \A r \in Range(CANDIDATES) :
               IF r.id \in Ids'
               THEN get_response(r.id)' = [status |-> 200, body |-> <<r>>]
               ELSE last' = Response("delete", r.id, 200) ]_vars

\* the record created first is still returned as it was created, after the
\* clock has moved on, a later record has been created and another deleted
C12_Witness ==
    /\ clock > 0
    /\ deleted # {}
    /\ \E r \in Stored :
           /\ r.id = 1 /\ r.created_at = 0
           /\ get_response(1) = [status |-> 200, body |-> <<r>>]
           /\ \E c \in Stored : c.id > 1 /\ c.created_at > 0

\* the filters of the listings that are checked: those of ListFilters, and
\* the skill filter with whitespace around it
CheckedFilters ==
    (SkillFilters \cup {PaddedSkill}) \X ExperienceFilters \X YearFilters

\* the place of record c in the store, in order of insertion
InsertedAt(c) == CHOOSE k \in 1..Len(CANDIDATES) : CANDIDATES[k] = c

\* record c satisfies every filter of f that is supplied, the skill filter
\* compared as `wanted`
Satisfies(c, f, wanted) ==
    /\ f[1] # <<>> => \E k \in 1..Len(c.Skills) : Lower(c.Skills[k]) = Lower(wanted)
    /\ f[2] # <<>> => /\ ~c.Years_of_Experience.nan
                      /\ c.Years_of_Experience.tenths >= f[2][1].tenths
    /\ f[3] # <<>> => c.Graduation_Year = f[3][1]

\* listing L holds exactly the stored records that satisfy f, each once
ListsExactly(L, f, wanted) ==
    /\ Range(L) = {c \in Stored : Satisfies(c, f, wanted)}
    /\ \A j, k \in 1..Len(L) : j # k => L[j] # L[k]

(* C13, as claimed: a listing returns exactly the stored records that
   satisfy every supplied filter (some skill equal to the skill filter
   case-insensitively, years of experience >= the bound, graduation year
   equal), each once, ordered by created_at descending, and a record
   created later never comes after one created earlier. *)
C13_ListingExactNewestFirst ==
    \A f \in CheckedFilters :
        LET L == list_results(f[1], f[2], f[3])
        IN  /\ ListsExactly(L, f, f[1])
            /\ \A j, k \in 1..Len(L) :
                   j < k => /\ L[j].created_at >= L[k].created_at
                            /\ InsertedAt(L[j]) > InsertedAt(L[k])

(* C13, amended: a listing returns exactly the stored records that satisfy
   every supplied filter (some skill equal, case-insensitively, to the
   skill filter with the whitespace around it removed; years of experience
   >= the bound; graduation year equal), each once, ordered by created_at
   descending: a record with a later created_at never comes after one with
   an earlier created_at, and records with the same created_at come in the
   order in which they were inserted. *)
C13_ListingExactByCreatedAt ==
    \A f \in CheckedFilters :
        LET L == list_results(f[1], f[2], f[3])
        IN  /\ ListsExactly(L, f, Strip(f[1], Whitespace))
            /\ \A j, k \in 1..Len(L) :
                   j < k => \/ L[j].created_at > L[k].created_at
                            \/ /\ L[j].created_at = L[k].created_at
                               /\ InsertedAt(L[j]) < InsertedAt(L[k])

\* three records are stored, two with the same created_at and one created
\* later, and the skill filter lists two of them
C13_Witness ==
    /\ Len(CANDIDATES) = 3
    /\ \E a, b, c \in Stored :
           /\ a.id # b.id
           /\ a.created_at = b.created_at /\ c.created_at > a.created_at
    /\ Len(list_results(PaddedSkill, <<>>, <<>>)) = 2
    /\ Len(list_results(<<>>, <<>>, <<1950>>)) = 2
    /\ list_results(<<>>, <<Float(10)>>, <<>>) # <<>>

(* C14: for every input string, the output of _safe_filename contains only
   characters of [A-Za-z0-9._-], is never empty ("resume" is returned when
   nothing remains of the input: when it has no safe character other than
   underscores), and neither starts nor ends with an underscore. *)
C14_SafeFilenameOutput ==
    (call.fn = "safe_filename" /\ call.done)
        => LET out == call.result
               kept == {i \in 1..Len(call.arg) :
                           call.arg[i] \in (Lowercase \cup Uppercase \cup AsciiDigits
                                                \cup {".", "-"})}
           IN  /\ \A i \in 1..Len(out) :
                      out[i] \in (Lowercase \cup Uppercase \cup AsciiDigits
                                      \cup {".", "_", "-"})
               /\ out # <<>>
               /\ out[1] # "_" /\ out[Len(out)] # "_"
               /\ kept = {} => out = <<"r", "e", "s", "u", "m", "e">>

\* _safe_filename has returned for a name that starts with an underscore and
\* ends with two different unsafe characters, and for nothing but "a" is left
C14_Witness ==
    /\ call.fn = "safe_filename" /\ call.done
    /\ call.arg = <<"_", "a", " ", "U+00E9">>
    /\ call.result = <<"a">>

\* the index of the n-th comma of raw; 0 for n = 0, Len(raw) + 1 when raw
\* has fewer than n commas
CommaAt(raw, n) ==
    LET at == {i \in 1..Len(raw) :
                  raw[i] = "," /\ Cardinality({j \in 1..i : raw[j] = ","}) = n}
    IN  IF n = 0 THEN 0
        ELSE IF at = {} THEN Len(raw) + 1
        ELSE CHOOSE i \in at : TRUE

\* piece p without the whitespace around it
Trimmed(p) ==
    LET solid == {i \in 1..Len(p) : p[i] \notin Whitespace}
    IN  IF solid = {} THEN <<>>
        ELSE SubSeq(p, CHOOSE i \in solid : \A j \in solid : i <= j,
                       CHOOSE i \in solid : \A j \in solid : j <= i)

\* the n-th piece of raw between commas, trimmed (n from 1)
PieceAt(raw, n) == Trimmed(SubSeq(raw, CommaAt(raw, n - 1) + 1, CommaAt(raw, n) - 1))

\* the number of pieces of raw
PieceCount(raw) == Cardinality({i \in 1..Len(raw) : raw[i] = ","}) + 1

\* the pieces of raw that are the first occurrence of a skill: not empty,
\* and equal case-insensitively to no earlier piece
FirstOccurrences(raw) ==
    {n \in 1..PieceCount(raw) :
        /\ PieceAt(raw, n) # <<>>
        /\ \A m \in 1..(n - 1) : Lower(PieceAt(raw, m)) # Lower(PieceAt(raw, n))}

(* C15: for every raw skills string, the output of _parse_skills contains no
   empty or whitespace-only element and no two elements equal
   case-insensitively, and is made of the first occurrence of each distinct
   skill, in its own casing, in the order of the input; "Python, python,
   SQL" gives ["Python", "SQL"]. *)
C15_ParseSkillsOutput ==
    (call.fn = "parse_skills" /\ call.done)
        => LET out == call.result
               first == FirstOccurrences(call.arg)
           IN  /\ \A i \in 1..Len(out) :
                      \E k \in 1..Len(out[i]) : out[i][k] \notin Whitespace
               /\ \A i, j \in 1..Len(out) : i # j => Lower(out[i]) # Lower(out[j])
               /\ Len(out) = Cardinality(first)
               /\ \A i \in 1..Len(out) :
                      \E n \in first :
                          /\ out[i] = PieceAt(call.arg, n)
                          /\ Cardinality({m \in first : m < n}) = i - 1
               /\ call.arg = LowForm.Skills
                      => out = << <<"P", "y", "t", "h", "o", "n">>, <<"S", "Q", "L">> >>

\* _parse_skills has returned for "b,A,a": the skills in the order of the
\* input, the repeated one once, in its first casing
C15_Witness ==
    /\ call.fn = "parse_skills" /\ call.done
    /\ call.arg = <<"b", ",", "A", ",", "a">>
    /\ call.result = << <<"b">>, <<"A">> >>

\* the extension of filename, lower-cased, is one the file-type gate lets
\* through
ExtensionAllowed(filename) ==
    Lower(SplitExt(filename)[2]) \in { <<".", "p", "d", "f">>, <<".", "d", "o", "c">>,
                                       <<".", "d", "o", "c", "x">> }

\* the paths whose file the step has written: new, or not as it was
Written == {p \in DOMAIN files' : p \notin DOMAIN files \/ files'[p] # files[p]}

(* C16: the steps of a creation come in the order TypeChecked,
   FieldValidated, IdAllocated, FileWritten, Stored.  A request whose
   extension is not allowed is rejected as UnsupportedFileType and nothing
   else, whatever its fields are; the id counter moves only for a request
   that passed the gate, the date parsing and the validation; a file is
   written only for an id allocated in an earlier step, by the request
   suspended with that id; a record is inserted only with its file
   completely written, under an id allocated in an earlier step. *)
C16_StepsInOrder ==
    [][ /\ (last'.op = "upload" /\ last'.request # <<>>
               /\ ~ExtensionAllowed(last'.request[2]))
           => /\ last'.status = 415
              /\ last'.errors = {"UnsupportedFileType"}
        /\ NEXT_ID' # NEXT_ID
           => /\ last'.op = "upload" /\ last'.status = 0 /\ last'.errors = {}
              /\ ExtensionAllowed(last'.request[2])
              /\ last'.request[1].DOB.iso
              /\ RuleViolations(last'.request[1], last'.request[2],
                                last'.request[3], DecimalDigits) = {}
              /\ allocLog' = Append(allocLog, [id |-> NEXT_ID,
                                               validated_on |-> last'.request[3]])
        /\ \A p \in Written :
               /\ files'[p].owner \in AllocatedIds
               /\ \E co \in pending \ pending' :
                      co.candidate_id = files'[p].owner /\ co.stored_path = p
        /\ \A r \in Range(CANDIDATES') \ Range(CANDIDATES) :
               /\ r.id \in AllocatedIds
               /\ r.resume_path \in DOMAIN files'
               /\ files'[r.resume_path].complete
               /\ files'[r.resume_path].owner = r.id ]_vars

\* a request with a refused extension and several invalid fields has just
\* been rejected at the gate, after a creation went through every step
C16_Witness ==
    /\ last.op = "upload" /\ last.status = 415
    /\ last.request # <<>>
    /\ Cardinality(RuleViolations(last.request[1], last.request[2],
                                  last.request[3], DecimalDigits)) >= 3
    /\ \E r \in Stored : r.resume_path \in DOMAIN files /\ files[r.resume_path].owner = r.id

(* C17: a deletion of an id that is in the store answers 200 and takes the
   record, and no other, out of the store, whether its resume file is
   removed, is already missing, or cannot be removed; a failure of the
   removal is not reported (the answer is 200 all the same). *)
C17_DeletionOfStoredIdSucceeds ==
    [][ /\ (last'.op = "delete" /\ last'.id \in Ids)
           => /\ last'.status = 200
              /\ last'.id \notin Ids'
              /\ CANDIDATES' = SelectSeq(CANDIDATES, LAMBDA c : c.id # last'.id)
        /\ \A d \in deleted' \ deleted :
               /\ d.id \in Ids /\ d.id \notin Ids'
               /\ last' = Response("delete", d.id, 200)
               /\ d.remove_error => d.resume_path \in DOMAIN files' ]_vars

\* one record was deleted while its file was already missing, and another
\* while its file could not be removed; both are out of the store
C17_Witness ==
    /\ \E d \in deleted : d.file_missing /\ d.id \notin Ids
    /\ \E d \in deleted : d.remove_error /\ d.id \notin Ids
                             /\ d.resume_path \in DOMAIN files

\* a creation that passed the file-type gate has been answered 422
RejectedByValidation ==
    /\ last.op = "upload" /\ last.status = 422 /\ last.request # <<>>
    /\ ExtensionAllowed(last.request[2])

\* the field rules the request answered last violates
LastRuleViolations ==
    RuleViolations(last.request[1], last.request[2], last.request[3], DecimalDigits)

(* C18, as claimed: when a creation request violates several validation
   rules at once (a malformed or future date of birth, an invalid contact
   number, an empty skill list, a length or a range), the rejection reports
   all of the violations together. *)
C18_AllViolationsReported ==
    RejectedByValidation
        => last.errors = LastRuleViolations
                            \cup (IF last.request[1].DOB.iso
                                  THEN {} ELSE {"InvalidDateFormat"})

(* C18, amended: when a creation request whose date of birth is a well-formed
   date violates several validation rules at once (a future date of birth,
   an invalid contact number, an empty skill list, a length or a range),
   the rejection reports all of the violations together; a malformed date
   of birth is reported alone, whatever else the request violates. *)
C18_AllFieldViolationsReported ==
    RejectedByValidation
        => last.errors = (IF last.request[1].DOB.iso
                          THEN LastRuleViolations
                          ELSE {"InvalidDateFormat"})

\* a request with a future date of birth, an invalid contact number and an
\* empty skill list has been rejected with the three reported together
C18_Witness ==
    /\ RejectedByValidation
    /\ {"FutureDate", "InvalidPhone", "EmptySkills"} \subseteq last.errors

(* C19: with requests handled one at a time, from an empty upload directory
   that only the service changes: no two records in the store have the same
   resume_path; every stored record's file exists, completely written by
   that record's creation; and no step, a deletion or a creation, removes
   or rewrites the file of a record that stays in the store. *)
C19_StoredRecordsKeepTheirOwnFiles ==
    [][ /\ \A j, k \in 1..Len(CANDIDATES') :
               j # k => CANDIDATES'[j].resume_path # CANDIDATES'[k].resume_path
        /\ \A c \in Range(CANDIDATES') :
               /\ c.resume_path \in DOMAIN files'
               /\ files'[c.resume_path] = [owner |-> c.id, complete |-> TRUE]
        /\ \A c \in Range(CANDIDATES) \cap Range(CANDIDATES') :
               /\ c.resume_path \in DOMAIN files
               /\ files'[c.resume_path] = files[c.resume_path] ]_vars

\* a record was deleted and its file removed, and the two records that stay
\* have their files: one uploaded as cv.pdf and stored under a resolved
\* name, one uploaded under a name that looks like a resolved name
C19_Witness ==
    /\ \E d \in deleted : ~d.remove_error /\ d.resume_path \notin DOMAIN files
    /\ Len(CANDIDATES) = 2
    /\ \E c \in Stored : c.resume_path = CvPathFor(c.id)
    /\ \E c \in Stored : c.resume_path = JoinUpload(safe_filename(CvTwoPdf))
    /\ \A c \in Stored : c.resume_path \in DOMAIN files

=============================================================================
